---- MODULE Spec2Model ----
(***************************************************************************)
(* SoftDesk Support API: the persisted tables (users, projects,           *)
(* contributor memberships, issues, issue assignees, comments) and the    *)
(* request handlers of ProjectViewSet, IssueViewSet and UserViewSet,      *)
(* with the permission classes of common/permissions.py.                  *)
(*                                                                         *)
(* A read request changes no table; it is modelled as an operator giving  *)
(* the HTTP status (or the listed ids) in the current state.  A write     *)
(* request is an action: it is taken for every caller and every target,   *)
(* computes the status as the view does and applies the effect when the   *)
(* view reaches it; a refused request leaves every table as it was.       *)
(***************************************************************************)
EXTENDS Integers, FiniteSets, Sequences, TLC

\* ---------------------------------------------------------------- bounds
MaxUsers == 3
MaxProjects == 1
MaxIssues == 1
MaxRequests == 2
MaxNestedProjects == 2     \* projects of the database of SpecNested
MaxNestedIssues == 2       \* issues of the database of SpecNested
MaxMonth == 2              \* months of a year of the calendar
MaxDay == 2                \* days of a month of the calendar

UserIds == 1..MaxUsers
ProjectIds == 1..MaxProjects
IssueIds == 1..MaxIssues
\* requests of POST /projects/{p}/contributors/ that can be in flight together
RequestIds == 1..MaxRequests
\* uuids a request can name in /comments/{uuid}/
CommentIds == {"c1"}

\* text values a writable field (name, title, first_name) can hold
Texts == {"a", "b"}

\* the value a newly created row gets for its text field
NewText == "a"

\* absent value (Python None / SQL NULL / key not in the payload)
None == 0

VARIABLES
    users,        \* rows of users_user: [id, is_staff, first_name, birth_date]
    projects,     \* rows of projects_project: [id, author, name]
    memberships,  \* rows of projects_contributor: [project, user, added_by]
    issues,       \* rows of issues_issue: [id, project, author, title]
    assignees,    \* rows of issues_issueassignee: [issue, user]
    comments,     \* rows of comments_comment: [id, issue, author, description]
    nextProject,  \* next primary key of projects_project
    nextIssue,    \* next primary key of issues_issue
    pending,      \* add-contributor requests validated and not yet saved:
                  \*   [req, caller, project, user]
    answered,     \* add-contributor requests answered: [req, status]
    assignPending,  \* assignee-add requests validated and not yet saved:
                    \*   [req, caller, issue, user]
    assignAnswered, \* assignee-add requests answered:
                    \*   [req, issue, user, at, status, detail]
    today,          \* the date date.today() returns, as <<year, month, day>>
    creating        \* create-project requests whose project row is written
                    \* and whose membership row is not: [req, caller, author, project]

tables == <<users, projects, memberships, issues, assignees, comments>>
counters == <<nextProject, nextIssue>>
assignInflight == <<assignPending, assignAnswered>>
inflight == <<pending, answered, assignInflight, creating>>
vars == <<users, projects, memberships, issues, assignees, comments,
          nextProject, nextIssue, pending, answered,
          assignPending, assignAnswered, today, creating>>

\* ---------------------------------------------------------------- dates
\* MIN_SIGNUP_AGE_YEARS (common.validators)
MIN_SIGNUP_AGE_YEARS == 15

\* a date is <<year, month, day>>; NoDate is a birth_date that is missing
NoDate == <<0, 0, 0>>
Months == 1..MaxMonth
Days == 1..MaxDay

\* the years date.today() falls in, counted from the year of the oldest
\* birth date, and the years of the birth dates a request can carry
TodayYears == {MIN_SIGNUP_AGE_YEARS, MIN_SIGNUP_AGE_YEARS + 1}
BirthYears == {0, 1, MIN_SIGNUP_AGE_YEARS + 1}
BirthDates == {<<y, m, d>> : y \in BirthYears, m \in Months, d \in Days}
FirstDay == <<MIN_SIGNUP_AGE_YEARS, 1, 1>>
LastDay == <<MIN_SIGNUP_AGE_YEARS + 1, MaxMonth, MaxDay>>
AdultBirthDate == <<0, 1, 1>>

\* date.__lt__ and the comparison of (month, day) tuples
DateLess(a, b) ==
    \/ a[1] < b[1]
    \/ a[1] = b[1] /\ a[2] < b[2]
    \/ a[1] = b[1] /\ a[2] = b[2] /\ a[3] < b[3]
MonthDayLess(a, b) == a[2] < b[2] \/ (a[2] = b[2] /\ a[3] < b[3])

\* the day after d
NextDay(d) ==
    IF d[3] < MaxDay THEN <<d[1], d[2], d[3] + 1>>
    ELSE IF d[2] < MaxMonth THEN <<d[1], d[2] + 1, 1>>
    ELSE <<d[1] + 1, 1, 1>>

\* calculate_age (common.validators)
calculate_age(birth_date, day) ==
    day[1] - birth_date[1] - (IF MonthDayLess(day, birth_date) THEN 1 ELSE 0)

\* a validator that refuses only the dates in the future
validate_birth_date_not_future(birth_date, day) ==
    IF DateLess(day, birth_date) THEN "future" ELSE "ok"

\* validate_birth_date_min_age (common.validators): the ValueError raised
validate_birth_date_min_age(birth_date, day) ==
    IF DateLess(day, birth_date) THEN "future"
    ELSE IF calculate_age(birth_date, day) < MIN_SIGNUP_AGE_YEARS THEN "too_young"
    ELSE "ok"

\* User.clean, run by full_clean in User.save: the key of the
\* ValidationError raised, or "" when the row is saved
UserClean(birth_date, day) ==
    IF birth_date = NoDate THEN "birth_date"
    ELSE IF validate_birth_date_min_age(birth_date, day) # "ok" THEN "birth_date"
    ELSE ""

\* ------------------------------------------------------------ row lookups
UserRow(u) == CHOOSE r \in users : r.id = u
ProjectRow(p) == CHOOSE r \in projects : r.id = p
IssueRow(i) == CHOOSE r \in issues : r.id = i
CommentRow(c) == CHOOSE r \in comments : r.id = c

ExistingUsers == {r.id : r \in users}
ExistingProjects == {r.id : r \in projects}
ExistingIssues == {r.id : r \in issues}
ExistingComments == {r.id : r \in comments}

\* request.user.is_staff
is_staff(u) == u \in ExistingUsers /\ UserRow(u).is_staff

\* Project.is_contributor: a membership row (project, user) exists
is_contributor(p, u) == \E m \in memberships : m.project = p /\ m.user = u

\* ------------------------------------------------------------ permissions
\* a staff check that was left out: only the owner passes
StaffOrAuthor_NoStaff(u, author) == author = u

\* StaffOrOwnerPermission.has_object_permission with get_owner_id = author_id
StaffOrAuthor(u, author) == is_staff(u) \/ author = u

\* a write gate that also lets the project's contributors through
IsProjectAuthor_OrContributor(u, p) ==
    is_staff(u) \/ ProjectRow(p).author = u \/ is_contributor(p, u)

\* IsProjectAuthor on a project
IsProjectAuthor(u, p) == StaffOrAuthor(u, ProjectRow(p).author)

\* a membership gate that lets everyone through
IsProjectContributor_Anyone(u, p) == TRUE

\* a permission that asks for the membership row only
IsProjectContributor_RowOnly(u, p) == is_staff(u) \/ is_contributor(p, u)

\* IsProjectContributor on a project (or on the project an object resolves to)
IsProjectContributor(u, p) ==
    \/ is_staff(u)
    \/ ProjectRow(p).author = u
    \/ is_contributor(p, u)

\* ----------------------------------------------------- project querysets
\* the list scoped like the detail routes: owned or contributed projects
ProjectListQS_WithContributed(u) ==
    IF is_staff(u) THEN ExistingProjects
    ELSE {p \in ExistingProjects : ProjectRow(p).author = u \/ is_contributor(p, u)}

\* ProjectViewSet.get_queryset for action "list"
ProjectListQS(u) ==
    IF is_staff(u) THEN ExistingProjects
    ELSE {p \in ExistingProjects : ProjectRow(p).author = u}

\* the detail queryset scoped like the list: owned projects only
ProjectDetailQS_OwnedOnly(u) ==
    IF is_staff(u) THEN ExistingProjects
    ELSE {p \in ExistingProjects : ProjectRow(p).author = u}

\* ProjectViewSet.get_queryset for detail and nested actions
ProjectDetailQS(u) ==
    IF is_staff(u) THEN ExistingProjects
    ELSE {p \in ExistingProjects :
            ProjectRow(p).author = u \/ is_contributor(p, u)}

\* GenericAPIView.get_object on ProjectViewSet: 404 outside the queryset,
\* then the action's object permission, 403 when it denies
ProjectObjectStatus(u, p, needAuthor) ==
    IF p \notin ProjectDetailQS(u) THEN 404
    ELSE IF needAuthor /\ ~IsProjectAuthor(u, p) THEN 403
    ELSE IF ~needAuthor /\ ~IsProjectContributor(u, p) THEN 403
    ELSE 200

\* GET /projects/{p}/
ProjectRetrieveStatus(u, p) == ProjectObjectStatus(u, p, FALSE)

\* ------------------------------------------------------------------ Init
Init ==
    /\ users = {[id |-> u, is_staff |-> (u = 1), first_name |-> NewText,
                  birth_date |-> AdultBirthDate] : u \in UserIds}
    /\ projects = {}
    /\ memberships = {}
    /\ issues = {}
    /\ assignees = {}
    /\ comments = {}
    /\ nextProject = 1
    /\ nextIssue = 1
    /\ pending = {}
    /\ answered = {}
    /\ assignPending = {}
    /\ assignAnswered = {}
    /\ today = FirstDay
    /\ creating = {}

\* ------------------------------------------------------- project handlers
\* a create that records the author, not the requester, in added_by
ProjectWriteSerializerCreate_ByAuthor(u, a) ==
    /\ projects' = projects \cup {[id |-> nextProject, author |-> a, name |-> NewText]}
    /\ memberships' = memberships \cup
          {[project |-> nextProject, user |-> a, added_by |-> a]}
    /\ nextProject' = nextProject + 1

\* ProjectWriteSerializer.create for request.user = u and author a
\* (a is context["author"], or request.user when the view gives none)
ProjectWriteSerializerCreate(u, a) ==
    /\ projects' = projects \cup {[id |-> nextProject, author |-> a, name |-> NewText]}
    /\ memberships' = memberships \cup
          {[project |-> nextProject, user |-> a, added_by |-> u]}
    /\ nextProject' = nextProject + 1

\* POST /projects/ : ProjectViewSet.create + ProjectWriteSerializer.create
ProjectCreate(u) ==
    /\ u \in ExistingUsers
    /\ nextProject <= MaxProjects
    /\ ProjectWriteSerializerCreate(u, u)
    /\ UNCHANGED <<users, issues, assignees, comments, nextIssue, inflight, today>>

\* the admin flow named in ProjectWriteSerializer.create: a staff user
\* creates a project whose author is another user (context["author"])
ProjectCreateForUser(u, a) ==
    /\ u \in ExistingUsers /\ is_staff(u)
    /\ a \in ExistingUsers /\ a # u
    /\ nextProject <= MaxProjects
    /\ ProjectWriteSerializerCreate(u, a)
    /\ UNCHANGED <<users, issues, assignees, comments, nextIssue, inflight, today>>

\* POST /projects/ of request r up to the end of Project.objects.create:
\* the project row is committed, the membership row is not written yet
ProjectCreateInsert(r, u) ==
    /\ u \in ExistingUsers
    /\ nextProject <= MaxProjects
    /\ ~\E q \in creating : q.req = r
    /\ projects' = projects \cup {[id |-> nextProject, author |-> u, name |-> NewText]}
    /\ nextProject' = nextProject + 1
    /\ creating' = creating \cup
          {[req |-> r, caller |-> u, author |-> u, project |-> nextProject]}
    /\ UNCHANGED <<users, memberships, issues, assignees, comments, nextIssue,
                   pending, answered, assignInflight, today>>

\* Contributor.objects.get_or_create of request r: the row is found, or it
\* is inserted, or the insert fails on a foreign key and nothing is written
ProjectCreateMembership(r) ==
    \E q \in creating :
        /\ q.req = r
        /\ memberships' =
              IF /\ ~is_contributor(q.project, q.author)
                 /\ q.project \in ExistingProjects
                 /\ {q.author, q.caller} \subseteq ExistingUsers
              THEN memberships \cup
                     {[project |-> q.project, user |-> q.author, added_by |-> q.caller]}
              ELSE memberships
        /\ creating' = creating \ {q}
        /\ UNCHANGED <<users, projects, issues, assignees, comments, counters,
                       pending, answered, assignInflight, today>>

\* ------------------------------------------------- on_delete behaviour
\* projects deleted with the users in delUsers (Project.author CASCADE)
ProjectsGone(delUsers, delProjects) ==
    delProjects \cup {r.id : r \in {x \in projects : x.author \in delUsers}}

\* a collector that does not follow the foreign keys of Issue
IssuesGone_NamedOnly(delUsers, delProjects, delIssues) == delIssues

\* issues deleted with those users and projects
\* (Issue.project CASCADE, Issue.author CASCADE)
IssuesGone(delUsers, delProjects, delIssues) ==
    delIssues \cup
    {r.id : r \in {x \in issues :
        \/ x.project \in ProjectsGone(delUsers, delProjects)
        \/ x.author \in delUsers}}

\* a collector that does not follow Contributor.added_by
MembershipsAfterDelete_AddedByKept(delUsers, delProjects) ==
    {m \in memberships :
        /\ m.project \notin ProjectsGone(delUsers, delProjects)
        /\ m.user \notin delUsers}

\* Contributor.user, Contributor.project, Contributor.added_by: all CASCADE
MembershipsAfterDelete(delUsers, delProjects) ==
    {m \in memberships :
        /\ m.project \notin ProjectsGone(delUsers, delProjects)
        /\ m.user \notin delUsers
        /\ m.added_by \notin delUsers}

\* IssueAssignee.issue CASCADE, IssueAssignee.user CASCADE
\* (assigned_by is SET_NULL: the row stays; the column is not modelled)
AssigneesAfterDelete(delUsers, delProjects, delIssues) ==
    {x \in assignees :
        /\ x.issue \notin IssuesGone(delUsers, delProjects, delIssues)
        /\ x.user \notin delUsers}

\* Comment.issue CASCADE, Comment.author CASCADE
CommentsAfterDelete(delUsers, delProjects, delIssues) ==
    {c \in comments :
        /\ c.issue \notin IssuesGone(delUsers, delProjects, delIssues)
        /\ c.author \notin delUsers}

\* Model.delete() of the given rows with everything the collector gathers
Delete(delUsers, delProjects, delIssues) ==
    /\ users' = {r \in users : r.id \notin delUsers}
    /\ projects' = {r \in projects : r.id \notin ProjectsGone(delUsers, delProjects)}
    /\ memberships' = MembershipsAfterDelete(delUsers, delProjects)
    /\ issues' = {r \in issues :
                    r.id \notin IssuesGone(delUsers, delProjects, delIssues)}
    /\ assignees' = AssigneesAfterDelete(delUsers, delProjects, delIssues)
    /\ comments' = CommentsAfterDelete(delUsers, delProjects, delIssues)

\* PUT/PATCH /projects/{p}/ : ProjectViewSet.update
ProjectUpdate(u, p, name) ==
    /\ u \in ExistingUsers
    /\ LET st == ProjectObjectStatus(u, p, TRUE) IN
        /\ projects' = IF st = 200
                       THEN (projects \ {ProjectRow(p)}) \cup
                            {[ProjectRow(p) EXCEPT !.name = name]}
                       ELSE projects
    /\ UNCHANGED <<users, memberships, issues, assignees, comments, counters, inflight, today>>

\* DELETE /projects/{p}/ : DestroyModelMixin.destroy on ProjectViewSet
ProjectDestroy(u, p) ==
    /\ u \in ExistingUsers
    /\ LET st == ProjectObjectStatus(u, p, TRUE) IN
        /\ IF st = 200 THEN Delete({}, {p}, {}) ELSE UNCHANGED tables
    /\ UNCHANGED <<counters, inflight, today>>

\* ------------------------------------------------ contributor management
\* the username and the email of user row u (both unique columns)
Username(u) == 100 + u
Email(u) == 200 + u

\* lookup keys a payload can carry
Usernames == {None} \cup {Username(u) : u \in UserIds}
Emails == {None} \cup {Email(u) : u \in UserIds}

\* a check that only asks for some key
validate_at_least_one_provided(username, email) ==
    username # None \/ email # None

\* validate_exactly_one_provided(username=..., email=...)
validate_exactly_one_provided(username, email) ==
    Cardinality({k \in {"username", "email"} :
        IF k = "username" THEN username # None ELSE email # None}) = 1

\* User.objects.filter(username=...).first() / filter(email=...).first()
ResolveUser(username, email) ==
    LET found == IF username # None
                 THEN {r.id : r \in {x \in users : Username(x.id) = username}}
                 ELSE {r.id : r \in {x \in users : Email(x.id) = email}}
    IN IF found = {} THEN None ELSE CHOOSE v \in found : TRUE

\* a validate that does not look for an existing membership
ContributorValidate_NoExistsCheck(p, username, email) ==
    IF ~validate_exactly_one_provided(username, email) THEN "exactly_one"
    ELSE IF ResolveUser(username, email) = None THEN "user_not_found"
    ELSE "ok"

\* ContributorWriteSerializer.validate: the error raised, or "ok"
ContributorValidate(p, username, email) ==
    IF ~validate_exactly_one_provided(username, email) THEN "exactly_one"
    ELSE IF ResolveUser(username, email) = None THEN "user_not_found"
    ELSE IF is_contributor(p, ResolveUser(username, email)) THEN "already_contributor"
    ELSE "ok"

\* Contributor.objects.create under UniqueConstraint(user, project) and the
\* foreign keys: 201, or 500 for the IntegrityError create() does not catch
ContributorCreateStatus(p, v, by) ==
    IF is_contributor(p, v) THEN 500
    ELSE IF p \notin ExistingProjects \/ ~({v, by} \subseteq ExistingUsers) THEN 500
    ELSE 201

\* the membership table after ContributorWriteSerializer.create
ContributorCreate(p, v, by) ==
    IF ContributorCreateStatus(p, v, by) = 201
    THEN memberships \cup {[project |-> p, user |-> v, added_by |-> by]}
    ELSE memberships

\* an unknown user answered as NotFound instead of a validation error
AddContributorStatus_NotFound(u, p, username, email) ==
    LET st == ProjectObjectStatus(u, p, TRUE) IN
    IF st # 200 THEN st
    ELSE IF ContributorValidate(p, username, email) = "user_not_found" THEN 404
    ELSE IF ContributorValidate(p, username, email) # "ok" THEN 400
    ELSE ContributorCreateStatus(p, ResolveUser(username, email), u)

\* the status of POST /projects/{p}/contributors/ handled without interleaving
AddContributorStatus(u, p, username, email) ==
    LET st == ProjectObjectStatus(u, p, TRUE) IN
    IF st # 200 THEN st
    ELSE IF ContributorValidate(p, username, email) # "ok" THEN 400
    ELSE ContributorCreateStatus(p, ResolveUser(username, email), u)

\* POST /projects/{p}/contributors/ handled without interleaving:
\* ProjectViewSet.contributors + ContributorWriteSerializer.validate/create
AddContributor(u, p, username, email) ==
    /\ u \in ExistingUsers
    /\ LET st == ProjectObjectStatus(u, p, TRUE)
           v == IF st = 200 THEN ContributorValidate(p, username, email) ELSE ""
       IN
        /\ memberships' =
              IF v = "ok"
              THEN ContributorCreate(p, ResolveUser(username, email), u)
              ELSE memberships
    /\ UNCHANGED <<users, projects, issues, assignees, comments, counters, inflight, today>>

\* POST /projects/{p}/contributors/ of request r up to the end of
\* serializer.is_valid: get_object, permissions, validate
AddContributorValidate(r, u, p, username, email) ==
    /\ u \in ExistingUsers
    /\ ~\E q \in pending \cup answered : q.req = r
    /\ LET st == ProjectObjectStatus(u, p, TRUE)
           v == IF st = 200 THEN ContributorValidate(p, username, email) ELSE ""
       IN
        IF v = "ok"
        THEN /\ pending' = pending \cup
                    {[req |-> r, caller |-> u, project |-> p,
                      user |-> ResolveUser(username, email)]}
             /\ UNCHANGED answered
        ELSE /\ answered' = answered \cup
                    {[req |-> r, status |-> IF st # 200 THEN st ELSE 400]}
             /\ UNCHANGED pending
    /\ UNCHANGED <<tables, counters, assignInflight, today, creating>>

\* serializer.save() of request r: ContributorWriteSerializer.create
AddContributorSave(r) ==
    \E q \in pending :
        /\ q.req = r
        /\ memberships' = ContributorCreate(q.project, q.user, q.caller)
        /\ pending' = pending \ {q}
        /\ answered' = answered \cup
              {[req |-> r, status |-> ContributorCreateStatus(q.project, q.user, q.caller)]}
        /\ UNCHANGED <<users, projects, issues, assignees, comments, counters,
                       assignInflight, today, creating>>

\* remove_contributor without the guard on the project author
RemoveContributorOutcome_NoOwnerGuard(u, p, t) ==
    LET st == ProjectObjectStatus(u, p, TRUE) IN
    IF st # 200 THEN <<st, "">>
    ELSE IF ~is_contributor(p, t) THEN <<404, "">>
    ELSE <<204, "">>

\* the answer of DELETE /projects/{p}/contributors/{t}/ as <<status, detail>>
RemoveContributorOutcome(u, p, t) ==
    LET st == ProjectObjectStatus(u, p, TRUE) IN
    IF st # 200 THEN <<st, "">>
    ELSE IF t = ProjectRow(p).author THEN <<400, "owner_not_removable">>
    ELSE IF ~is_contributor(p, t) THEN <<404, "">>
    ELSE <<204, "">>

\* DELETE /projects/{p}/contributors/{t}/ : ProjectViewSet.remove_contributor
RemoveContributor(u, p, t) ==
    /\ u \in ExistingUsers
    /\ LET out == RemoveContributorOutcome(u, p, t) IN
        /\ memberships' = IF out[1] = 204
                          THEN {m \in memberships : ~(m.project = p /\ m.user = t)}
                          ELSE memberships
    /\ UNCHANGED <<users, projects, issues, assignees, comments, counters, inflight, today>>

\* ------------------------------------------------------ issue handlers
\* IsIssueAuthor of apps/issues/permissions.py, which no view imports:
\* the issue author only
IssuesAppIsIssueAuthor(u, i) == IssueRow(i).author = u

\* a write gate that lets every member of the issue's project through
IsIssueAuthor_AnyContributor(u, i) == IsProjectContributor(u, IssueRow(i).project)

\* IsIssueAuthor (common.permissions) on a write method: staff or issue author
IsIssueAuthor(u, i) == StaffOrAuthor(u, IssueRow(i).author)

\* a list that is not scoped to the caller's projects
IssueListQS_All(u) == ExistingIssues

\* IssueViewSet.get_queryset for action "list"
IssueListQS(u) ==
    IF is_staff(u) THEN ExistingIssues
    ELSE {i \in ExistingIssues :
            \/ ProjectRow(IssueRow(i).project).author = u
            \/ is_contributor(IssueRow(i).project, u)}

\* the detail queryset scoped like the list
IssueDetailQS_Scoped(u) == IssueListQS(u)

\* IssueViewSet.get_queryset for every other action: not scoped
IssueDetailQS(u) == ExistingIssues

\* get_object on IssueViewSet with the permissions of get_permissions:
\* IsProjectContributor, then IsIssueAuthor when needIssueAuthor
IssueObjectStatus(u, i, needIssueAuthor) ==
    IF i \notin IssueDetailQS(u) THEN 404
    ELSE IF ~IsProjectContributor(u, IssueRow(i).project) THEN 403
    ELSE IF needIssueAuthor /\ ~IsIssueAuthor(u, i) THEN 403
    ELSE 200

\* a save that skips full_clean
IssueCleanOk_Skipped(p, author) == TRUE

\* Issue.clean, run by Issue.save: the author has a membership row
IssueCleanOk(p, author) == is_contributor(p, author)

\* a view that drops the payload's "project" key without comparing it
IssueCreateOutcome_UrlWins(u, p, body) ==
    LET st == ProjectObjectStatus(u, p, FALSE) IN
    IF st # 200 THEN <<st, "">>
    ELSE IF ~IssueCleanOk(p, u) THEN <<400, "author">>
    ELSE <<201, "">>

\* the answer of POST /projects/{p}/issues/ as <<status, detail>>
\* body is the "project" key of the payload (None when absent)
IssueCreateOutcome(u, p, body) ==
    LET st == ProjectObjectStatus(u, p, FALSE) IN
    IF st # 200 THEN <<st, "">>
    ELSE IF body # None /\ body # p THEN <<400, "project">>
    ELSE IF ~IssueCleanOk(p, u) THEN <<400, "author">>
    ELSE <<201, "">>

\* POST /projects/{p}/issues/ : ProjectViewSet.issues + IssueWriteSerializer.create
IssueCreate(u, p, body) ==
    /\ u \in ExistingUsers
    /\ nextIssue <= MaxIssues
    /\ LET out == IssueCreateOutcome(u, p, body) IN
        /\ issues' = IF out[1] = 201
                     THEN issues \cup {[id |-> nextIssue, project |-> p,
                                       author |-> u, title |-> NewText]}
                     ELSE issues
        /\ nextIssue' = IF out[1] = 201 THEN nextIssue + 1 ELSE nextIssue
    /\ UNCHANGED <<users, projects, memberships, assignees, comments, nextProject, inflight, today>>

\* ModelSerializer.update -> Issue.save: 200, or the ValidationError of
\* Issue.clean leaving the request as a server error
IssueSaveStatus(i) ==
    IF IssueCleanOk(IssueRow(i).project, IssueRow(i).author) THEN 200 ELSE 500

\* the answer of /issues/{i}/ for GET, UPDATE (PUT or PATCH) and DELETE
IssueOutcome(u, i, method) ==
    LET st == IssueObjectStatus(u, i, method # "GET") IN
    IF st # 200 THEN st
    ELSE IF method = "GET" THEN 200
    ELSE IF method = "DELETE" THEN 204
    ELSE IssueSaveStatus(i)

\* an issue lookup by pk alone, without the project filter
NestedIssueOutcome_AnyProject(u, p, i, method) ==
    LET st == ProjectObjectStatus(u, p, FALSE) IN
    IF st # 200 THEN st
    ELSE IF i \notin ExistingIssues THEN 404
    ELSE IF method = "GET" THEN 200
    ELSE IF ~IsIssueAuthor(u, i) THEN 403
    ELSE IF method = "DELETE" THEN 204
    ELSE IssueSaveStatus(i)

\* the answer of /projects/{p}/issues/{i}/ : ProjectViewSet.issue_detail
NestedIssueOutcome(u, p, i, method) ==
    LET st == ProjectObjectStatus(u, p, FALSE) IN
    IF st # 200 THEN st
    ELSE IF i \notin ExistingIssues \/ IssueRow(i).project # p THEN 404
    ELSE IF method = "GET" THEN 200
    ELSE IF ~IsIssueAuthor(u, i) THEN 403
    ELSE IF method = "DELETE" THEN 204
    ELSE IssueSaveStatus(i)

\* the effect of an issue write that was answered with `status`
IssueWriteEffect(i, status, title) ==
    IF status = 200
    THEN /\ issues' = (issues \ {IssueRow(i)}) \cup {[IssueRow(i) EXCEPT !.title = title]}
         /\ UNCHANGED <<users, projects, memberships, assignees, comments>>
    ELSE IF status = 204 THEN Delete({}, {}, {i})
    ELSE UNCHANGED tables

\* PUT/PATCH/DELETE /issues/{i}/ : UpdateModelMixin / DestroyModelMixin
IssueWrite(u, i, method, title) ==
    /\ u \in ExistingUsers
    /\ LET st == IssueOutcome(u, i, method) IN
        /\ IssueWriteEffect(i, st, title)
    /\ UNCHANGED <<counters, inflight, today>>

\* PUT/PATCH/DELETE /projects/{p}/issues/{i}/ : ProjectViewSet.issue_detail
NestedIssueWrite(u, p, i, method, title) ==
    /\ u \in ExistingUsers
    /\ LET st == NestedIssueOutcome(u, p, i, method) IN
        /\ IssueWriteEffect(i, st, title)
    /\ UNCHANGED <<counters, inflight, today>>

\* ISSUE_EDITABLE_FIELDS, for the columns of the model's issue rows
ISSUE_EDITABLE_FIELDS == {"title"}

\* an update payload: "title", and the keys "project" and "author" with
\* the value they carry (None when the key is absent)
IssuePayloads(projectIds) ==
    [title : Texts, project : {None} \cup projectIds, author : {None} \cup UserIds]

\* a serializer that declares every column of the model as a field
IssueValidatedData_AllKeys(payload) ==
    [f \in {"title"} \cup (IF payload.project # None THEN {"project"} ELSE {})
                     \cup (IF payload.author # None THEN {"author"} ELSE {})
        |-> payload[f]]

\* IssueWriteSerializer(data=payload).validated_data: the declared fields
IssueValidatedData(payload) ==
    [f \in ISSUE_EDITABLE_FIELDS |-> payload[f]]

\* ModelSerializer.update: setattr(instance, attr, value) for each item
IssueApply(row, validated_data) ==
    [f \in DOMAIN row |->
        IF f \in DOMAIN validated_data THEN validated_data[f] ELSE row[f]]

\* the effect of an issue update that was answered with `status`
IssuePatchEffect(i, status, payload) ==
    /\ issues' = IF status = 200
                 THEN (issues \ {IssueRow(i)})
                        \cup {IssueApply(IssueRow(i), IssueValidatedData(payload))}
                 ELSE issues
    /\ UNCHANGED <<users, projects, memberships, assignees, comments>>

\* PUT/PATCH /issues/{i}/ with a payload that carries "project", "author"
IssuePatch(u, i, payload) ==
    /\ u \in ExistingUsers
    /\ IssuePatchEffect(i, IssueOutcome(u, i, "UPDATE"), payload)
    /\ UNCHANGED <<counters, inflight, today>>

\* PUT/PATCH /projects/{p}/issues/{i}/ with such a payload:
\* issue_detail pops "project" before the serializer gets the data
NestedIssuePatch(u, p, i, payload) ==
    /\ u \in ExistingUsers
    /\ IssuePatchEffect(i, NestedIssueOutcome(u, p, i, "UPDATE"),
                        [payload EXCEPT !.project = None])
    /\ UNCHANGED <<counters, inflight, today>>

\* the assignee serializer without validate_user
AssigneeAddOutcome_NoContributorCheck(u, i, v) ==
    LET st == IssueObjectStatus(u, i, TRUE) IN
    IF st # 200 THEN <<st, "">>
    ELSE IF v \notin ExistingUsers THEN <<400, "invalid_pk">>
    ELSE IF [issue |-> i, user |-> v] \in assignees THEN <<400, "already_assigned">>
    ELSE <<201, "">>

\* the answer of POST /issues/{i}/assignees/ {"user": v} as <<status, detail>>
AssigneeAddOutcome(u, i, v) ==
    LET st == IssueObjectStatus(u, i, TRUE) IN
    IF st # 200 THEN <<st, "">>
    ELSE IF v \notin ExistingUsers THEN <<400, "invalid_pk">>
    ELSE IF ~is_contributor(IssueRow(i).project, v) THEN <<400, "not_contributor">>
    ELSE IF [issue |-> i, user |-> v] \in assignees THEN <<400, "already_assigned">>
    ELSE <<201, "">>

\* POST /issues/{i}/assignees/ : IssueViewSet.assignees + IssueAssigneeAddSerializer
AssigneeAdd(u, i, v) ==
    /\ u \in ExistingUsers
    /\ LET out == AssigneeAddOutcome(u, i, v) IN
        /\ assignees' = IF out[1] = 201
                        THEN assignees \cup {[issue |-> i, user |-> v]}
                        ELSE assignees
    /\ UNCHANGED <<users, projects, memberships, issues, comments, counters, inflight, today>>

\* a create that lets the IntegrityError of the insert through
AssigneeCreateOutcome_Uncaught(i, v) ==
    IF \/ [issue |-> i, user |-> v] \in assignees
       \/ i \notin ExistingIssues
       \/ v \notin ExistingUsers
    THEN <<500, "">>
    ELSE <<201, "">>

\* IssueAssigneeAddSerializer.create: the insert violates uniq_issue_assignee
\* (or a foreign key) and its IntegrityError is raised again as the
\* ValidationError on 'user', or the row is inserted
AssigneeCreateOutcome(i, v) ==
    IF \/ [issue |-> i, user |-> v] \in assignees
       \/ i \notin ExistingIssues
       \/ v \notin ExistingUsers
    THEN <<400, "already_assigned">>
    ELSE <<201, "">>

\* POST /issues/{i}/assignees/ of request r up to the end of
\* serializer.is_valid: get_object, permissions, validate_user, validate
AssigneeAddValidate(r, u, i, v) ==
    /\ u \in ExistingUsers
    /\ ~\E q \in assignPending \cup assignAnswered : q.req = r
    /\ LET out == AssigneeAddOutcome(u, i, v) IN
        IF out[1] = 201
        THEN /\ assignPending' = assignPending \cup
                    {[req |-> r, caller |-> u, issue |-> i, user |-> v]}
             /\ UNCHANGED assignAnswered
        ELSE /\ assignAnswered' = assignAnswered \cup
                    {[req |-> r, issue |-> i, user |-> v, at |-> "validate",
                      status |-> out[1], detail |-> out[2]]}
             /\ UNCHANGED assignPending
    /\ UNCHANGED <<tables, counters, pending, answered, today, creating>>

\* serializer.save() of request r: IssueAssigneeAddSerializer.create
AssigneeAddSave(r) ==
    \E q \in assignPending :
        /\ q.req = r
        /\ LET out == AssigneeCreateOutcome(q.issue, q.user) IN
            /\ assignees' = IF out[1] = 201
                            THEN assignees \cup {[issue |-> q.issue, user |-> q.user]}
                            ELSE assignees
            /\ assignAnswered' = assignAnswered \cup
                  {[req |-> r, issue |-> q.issue, user |-> q.user, at |-> "save",
                    status |-> out[1], detail |-> out[2]]}
        /\ assignPending' = assignPending \ {q}
        /\ UNCHANGED <<users, projects, memberships, issues, comments, counters,
                       pending, answered, today, creating>>

\* the answer of DELETE /issues/{i}/assignees/{v}/
AssigneeRemoveOutcome(u, i, v) ==
    LET st == IssueObjectStatus(u, i, TRUE) IN
    IF st # 200 THEN st
    ELSE IF [issue |-> i, user |-> v] \notin assignees THEN 404
    ELSE 204

\* DELETE /issues/{i}/assignees/{v}/ : IssueViewSet.remove_assignee
AssigneeRemove(u, i, v) ==
    /\ u \in ExistingUsers
    /\ LET st == AssigneeRemoveOutcome(u, i, v) IN
        /\ assignees' = IF st = 204 THEN assignees \ {[issue |-> i, user |-> v]}
                        ELSE assignees
    /\ UNCHANGED <<users, projects, memberships, issues, comments, counters, inflight, today>>

\* ---------------------------------------------------- comment handlers
\* Comment.save: full_clean calls Comment.clean, whose first statement
\* `super.clean()` raises AttributeError; no save of a Comment returns
CommentSaveStatus == 500

\* IsCommentAuthorOrStaff (common.permissions)
IsCommentAuthorOrStaff(u, c) == StaffOrAuthor(u, CommentRow(c).author)

\* the answer of POST /issues/{i}/comments/
CommentCreateOutcome(u, i) ==
    LET st == IssueObjectStatus(u, i, FALSE) IN
    IF st # 200 THEN st ELSE CommentSaveStatus

\* POST /issues/{i}/comments/ : IssueViewSet.comments + CommentWriteSerializer.create
\* c is the uuid4 drawn for the new row
CommentCreate(u, i, c) ==
    /\ u \in ExistingUsers
    /\ c \notin ExistingComments
    /\ comments' = IF CommentCreateOutcome(u, i) = 201
                   THEN comments \cup {[id |-> c, issue |-> i, author |-> u,
                                        description |-> NewText]}
                   ELSE comments
    /\ UNCHANGED <<users, projects, memberships, issues, assignees, counters, inflight, today>>

\* the answer of /issues/{i}/comments/{c}/ : IssueViewSet.comment_detail
CommentOutcome(u, i, c, method) ==
    LET st == IssueObjectStatus(u, i, FALSE) IN
    IF st # 200 THEN st
    ELSE IF c \notin ExistingComments \/ CommentRow(c).issue # i THEN 404
    ELSE IF method = "GET" THEN 200
    ELSE IF ~IsCommentAuthorOrStaff(u, c) THEN 403
    ELSE IF method = "DELETE" THEN 204
    ELSE CommentSaveStatus

\* PUT/PATCH/DELETE /issues/{i}/comments/{c}/
CommentWrite(u, i, c, method) ==
    /\ u \in ExistingUsers
    /\ LET st == CommentOutcome(u, i, c, method) IN
        /\ comments' = IF st = 204 THEN {r \in comments : r.id # c} ELSE comments
    /\ UNCHANGED <<users, projects, memberships, issues, assignees, counters, inflight, today>>

\* GET /issues/{i}/comments/ : the comments listed (none when refused)
IssueCommentsList(u, i) ==
    IF IssueObjectStatus(u, i, FALSE) = 200
    THEN {r.id : r \in {x \in comments : x.issue = i}}
    ELSE {}

\* a queryset without the author filter
CommentQS_All(u) == ExistingComments

\* CommentViewSet.get_queryset: staff all comments, others their own
CommentQS(u) ==
    IF is_staff(u) THEN ExistingComments
    ELSE {c \in ExistingComments : CommentRow(c).author = u}

\* the answer of /comments/{c}/ on CommentViewSet for GET, UPDATE, DELETE
GlobalCommentOutcome(u, c, method) ==
    IF c \notin CommentQS(u) THEN 404
    ELSE IF ~IsCommentAuthorOrStaff(u, c) THEN 403
    ELSE IF method = "GET" THEN 200
    ELSE IF method = "DELETE" THEN 204
    ELSE CommentSaveStatus

\* PUT/PATCH/DELETE /comments/{c}/ : UpdateModelMixin / DestroyModelMixin
GlobalCommentWrite(u, c, method) ==
    /\ u \in ExistingUsers
    /\ LET st == GlobalCommentOutcome(u, c, method) IN
        /\ comments' = IF st = 204 THEN {r \in comments : r.id # c} ELSE comments
    /\ UNCHANGED <<users, projects, memberships, issues, assignees, counters, inflight, today>>

\* ------------------------------------------------------- user handlers
\* IsSelfOrAdmin (common.permissions): staff, or the profile is the caller's
IsSelfOrAdmin(u, v) == is_staff(u) \/ v = u

\* UserViewSet.get_queryset for detail actions: every user
UserDetailQS(u) == ExistingUsers

\* get_object on UserViewSet
UserObjectStatus(u, v) ==
    IF v \notin UserDetailQS(u) THEN 404
    ELSE IF ~IsSelfOrAdmin(u, v) THEN 403
    ELSE 200

\* the answer of /users/{v}/ for GET, UPDATE (PUT or PATCH) and DELETE
UserOutcome(u, v, method) ==
    LET st == UserObjectStatus(u, v) IN
    IF st # 200 THEN st
    ELSE IF method = "DELETE" THEN 204
    ELSE IF method = "GET" THEN 200
    ELSE IF UserClean(UserRow(v).birth_date, today) # "" THEN 400
    ELSE 200

\* PUT/PATCH /users/{v}/ : UpdateModelMixin.update on UserViewSet
UserUpdate(u, v, name) ==
    /\ u \in ExistingUsers
    /\ LET st == UserOutcome(u, v, "UPDATE") IN
        /\ users' = IF st = 200
                    THEN (users \ {UserRow(v)}) \cup {[UserRow(v) EXCEPT !.first_name = name]}
                    ELSE users
    /\ UNCHANGED <<projects, memberships, issues, assignees, comments, counters, inflight, today>>

\* DELETE /users/{v}/ : DestroyModelMixin.destroy on UserViewSet
UserDestroy(u, v) ==
    /\ u \in ExistingUsers
    /\ LET st == UserOutcome(u, v, "DELETE") IN
        /\ IF st = 204 THEN Delete({v}, {}, {}) ELSE UNCHANGED tables
    /\ UNCHANGED <<counters, inflight, today>>

\* the primary key of the next row of users_user
NewUserId ==
    CHOOSE i \in 1..(MaxUsers + 1) :
        (i - 1) \in ExistingUsers /\ \A j \in ExistingUsers : j < i

\* the answer of POST /users/ (public signup) as <<status, key>>:
\* the required DateField, validate_birth_date, then UserSerializer.create
SignupOutcome(birth_date) ==
    IF birth_date = NoDate THEN <<400, "birth_date">>
    ELSE IF validate_birth_date_min_age(birth_date, today) # "ok"
         THEN <<400, "birth_date">>
    ELSE IF UserClean(birth_date, today) # "" THEN <<400, UserClean(birth_date, today)>>
    ELSE <<201, "">>

\* POST /users/ : CreateModelMixin.create on UserViewSet, AllowAny
Signup(birth_date) ==
    /\ users # {}
    /\ NewUserId <= MaxUsers
    /\ users' = IF SignupOutcome(birth_date)[1] = 201
                THEN users \cup {[id |-> NewUserId, is_staff |-> FALSE,
                                  first_name |-> NewText, birth_date |-> birth_date]}
                ELSE users
    /\ UNCHANGED <<projects, memberships, issues, assignees, comments, counters,
                   inflight, today>>

\* the answer of PATCH /users/{v}/ {"birth_date": ...} as <<status, key>>
ProfileUpdateOutcome(u, v, birth_date) ==
    LET st == UserObjectStatus(u, v) IN
    IF st # 200 THEN <<st, "">>
    ELSE IF birth_date = NoDate THEN <<400, "birth_date">>
    ELSE IF validate_birth_date_min_age(birth_date, today) # "ok"
         THEN <<400, "birth_date">>
    ELSE IF UserClean(birth_date, today) # "" THEN <<400, UserClean(birth_date, today)>>
    ELSE <<200, "">>

\* PATCH /users/{v}/ {"birth_date": ...} : UserSerializer.update
ProfileUpdate(u, v, birth_date) ==
    /\ u \in ExistingUsers
    /\ users' = IF ProfileUpdateOutcome(u, v, birth_date)[1] = 200
                THEN (users \ {UserRow(v)})
                       \cup {[UserRow(v) EXCEPT !.birth_date = birth_date]}
                ELSE users
    /\ UNCHANGED <<projects, memberships, issues, assignees, comments, counters,
                   inflight, today>>

\* user.birth_date = ...; user.save() outside the API (admin, shell):
\* User.save runs full_clean, which raises or lets the row be written
ModelSave(v, birth_date) ==
    /\ v \in ExistingUsers
    /\ users' = IF UserClean(birth_date, today) = ""
                THEN (users \ {UserRow(v)})
                       \cup {[UserRow(v) EXCEPT !.birth_date = birth_date]}
                ELSE users
    /\ UNCHANGED <<projects, memberships, issues, assignees, comments, counters,
                   inflight, today>>

\* User.objects.create_user(...) outside the API: User.save on a new row
ModelCreate(birth_date) ==
    /\ users # {}
    /\ NewUserId <= MaxUsers
    /\ users' = IF UserClean(birth_date, today) = ""
                THEN users \cup {[id |-> NewUserId, is_staff |-> FALSE,
                                  first_name |-> NewText, birth_date |-> birth_date]}
                ELSE users
    /\ UNCHANGED <<projects, memberships, issues, assignees, comments, counters,
                   inflight, today>>

\* midnight: date.today() returns the next day
Tick ==
    /\ DateLess(today, LastDay)
    /\ today' = NextDay(today)
    /\ UNCHANGED <<tables, counters, inflight>>

\* methods that write
WriteMethods == {"UPDATE", "DELETE"}
Methods == {"GET"} \cup WriteMethods

Next ==
    \/ \E u \in UserIds : ProjectCreate(u)
    \/ \E u \in UserIds, p \in ProjectIds, name \in Texts : ProjectUpdate(u, p, name)
    \/ \E u \in UserIds, p \in ProjectIds : ProjectDestroy(u, p)
    \/ \E u \in UserIds, p \in ProjectIds, un \in Usernames, em \in Emails :
          AddContributor(u, p, un, em)
    \/ \E u \in UserIds, p \in ProjectIds, t \in UserIds : RemoveContributor(u, p, t)
    \/ \E u \in UserIds, p \in ProjectIds, body \in {None} \cup ProjectIds :
          IssueCreate(u, p, body)
    \/ \E u \in UserIds, i \in IssueIds, m \in WriteMethods, t \in Texts :
          IssueWrite(u, i, m, t)
    \/ \E u \in UserIds, p \in ProjectIds, i \in IssueIds, m \in WriteMethods, t \in Texts :
          NestedIssueWrite(u, p, i, m, t)
    \/ \E u \in UserIds, i \in IssueIds, v \in UserIds : AssigneeAdd(u, i, v)
    \/ \E u \in UserIds, i \in IssueIds, v \in UserIds : AssigneeRemove(u, i, v)
    \/ \E u \in UserIds, i \in IssueIds, c \in CommentIds : CommentCreate(u, i, c)
    \/ \E u \in UserIds, i \in IssueIds, c \in CommentIds, m \in WriteMethods :
          CommentWrite(u, i, c, m)
    \/ \E u \in UserIds, c \in CommentIds, m \in WriteMethods :
          GlobalCommentWrite(u, c, m)
    \/ \E u \in UserIds, v \in UserIds, name \in Texts : UserUpdate(u, v, name)
    \/ \E u \in UserIds, v \in UserIds : UserDestroy(u, v)

Spec == Init /\ [][Next]_vars

\* add-contributor requests running concurrently: each is validated, then
\* saved, and other requests on the project's contributors come in between
NextRace ==
    \/ \E u \in UserIds : ProjectCreate(u)
    \/ \E r \in RequestIds, u \in UserIds, p \in ProjectIds,
          un \in Usernames, em \in Emails : AddContributorValidate(r, u, p, un, em)
    \/ \E r \in RequestIds : AddContributorSave(r)
    \/ \E u \in UserIds, p \in ProjectIds, t \in UserIds : RemoveContributor(u, p, t)

SpecRace == Init /\ [][NextRace]_vars

\* assignee-add requests running concurrently: each is validated, then
\* saved, and removals of assignees and of contributors come in between
NextAssignRace ==
    \/ \E u \in UserIds : ProjectCreate(u)
    \/ \E u \in UserIds, p \in ProjectIds, un \in Usernames, em \in Emails :
          AddContributor(u, p, un, em)
    \/ \E u \in UserIds, p \in ProjectIds, body \in {None} \cup ProjectIds :
          IssueCreate(u, p, body)
    \/ \E r \in RequestIds, u \in UserIds, i \in IssueIds, v \in UserIds :
          AssigneeAddValidate(r, u, i, v)
    \/ \E r \in RequestIds : AssigneeAddSave(r)
    \/ \E u \in UserIds, i \in IssueIds, v \in UserIds : AssigneeRemove(u, i, v)
    \/ \E u \in UserIds, p \in ProjectIds, t \in UserIds : RemoveContributor(u, p, t)

SpecAssignRace == Init /\ [][NextAssignRace]_vars

\* create-project requests whose two writes are separate statements, with
\* the requests of other callers coming in between
NextCreateRace ==
    \/ \E r \in RequestIds, u \in UserIds : ProjectCreateInsert(r, u)
    \/ \E r \in RequestIds : ProjectCreateMembership(r)
    \/ \E u \in UserIds, p \in ProjectIds, un \in Usernames, em \in Emails :
          AddContributor(u, p, un, em)
    \/ \E u \in UserIds, p \in ProjectIds, t \in UserIds : RemoveContributor(u, p, t)
    \/ \E u \in UserIds, p \in ProjectIds, body \in {None} \cup ProjectIds :
          IssueCreate(u, p, body)
    \/ \E u \in UserIds, v \in UserIds : UserDestroy(u, v)

SpecCreateRace == Init /\ [][NextCreateRace]_vars

\* the requests that write projects and memberships, with the admin flow
\* in which the project author is not the requester
NextOverride ==
    \/ \E u \in UserIds : ProjectCreate(u)
    \/ \E u \in UserIds, a \in UserIds : ProjectCreateForUser(u, a)
    \/ \E u \in UserIds, p \in ProjectIds, name \in Texts : ProjectUpdate(u, p, name)
    \/ \E u \in UserIds, p \in ProjectIds : ProjectDestroy(u, p)
    \/ \E u \in UserIds, p \in ProjectIds, un \in Usernames, em \in Emails :
          AddContributor(u, p, un, em)
    \/ \E u \in UserIds, p \in ProjectIds, t \in UserIds : RemoveContributor(u, p, t)
    \/ \E u \in UserIds, v \in UserIds : UserDestroy(u, v)

SpecOverride == Init /\ [][NextOverride]_vars

\* a database that already holds a project, an issue and a comment on it:
\* rows stored without Comment.save (a fixture, bulk_create), since no
\* request can save a Comment
InitStored ==
    /\ users = {[id |-> u, is_staff |-> (u = 1), first_name |-> NewText,
                  birth_date |-> AdultBirthDate] : u \in UserIds}
    /\ projects = {[id |-> 1, author |-> 2, name |-> NewText]}
    /\ memberships = {[project |-> 1, user |-> 2, added_by |-> 2],
                      [project |-> 1, user |-> 3, added_by |-> 2]}
    /\ issues = {[id |-> 1, project |-> 1, author |-> 2, title |-> NewText]}
    /\ assignees = {}
    /\ \E a \in {2, 3} :
          comments = {[id |-> "c1", issue |-> 1, author |-> a, description |-> NewText]}
    /\ nextProject = 2
    /\ nextIssue = 2
    /\ pending = {}
    /\ answered = {}
    /\ assignPending = {}
    /\ assignAnswered = {}
    /\ today = FirstDay
    /\ creating = {}

\* the requests on that database; its primary keys 1 are taken, so the
\* two create handlers are left to Spec
NextStored ==
    \/ \E u \in UserIds, p \in ProjectIds, name \in Texts : ProjectUpdate(u, p, name)
    \/ \E u \in UserIds, p \in ProjectIds : ProjectDestroy(u, p)
    \/ \E u \in UserIds, p \in ProjectIds, un \in Usernames, em \in Emails :
          AddContributor(u, p, un, em)
    \/ \E u \in UserIds, p \in ProjectIds, t \in UserIds : RemoveContributor(u, p, t)
    \/ \E u \in UserIds, i \in IssueIds, m \in WriteMethods, t \in Texts :
          IssueWrite(u, i, m, t)
    \/ \E u \in UserIds, p \in ProjectIds, i \in IssueIds, m \in WriteMethods, t \in Texts :
          NestedIssueWrite(u, p, i, m, t)
    \/ \E u \in UserIds, i \in IssueIds, v \in UserIds : AssigneeAdd(u, i, v)
    \/ \E u \in UserIds, i \in IssueIds, v \in UserIds : AssigneeRemove(u, i, v)
    \/ \E u \in UserIds, i \in IssueIds, c \in CommentIds : CommentCreate(u, i, c)
    \/ \E u \in UserIds, i \in IssueIds, c \in CommentIds, m \in WriteMethods :
          CommentWrite(u, i, c, m)
    \/ \E u \in UserIds, c \in CommentIds, m \in WriteMethods :
          GlobalCommentWrite(u, c, m)
    \/ \E u \in UserIds, v \in UserIds, name \in Texts : UserUpdate(u, v, name)
    \/ \E u \in UserIds, v \in UserIds : UserDestroy(u, v)

SpecStored == InitStored /\ [][NextStored]_vars

\* a database with two projects of two authors, either before any issue
\* is created or holding one issue in each project and a stored comment
NestedProjectIds == 1..MaxNestedProjects
NestedIssueIds == 1..MaxNestedIssues

InitNested ==
    /\ users = {[id |-> u, is_staff |-> (u = 1), first_name |-> NewText,
                  birth_date |-> AdultBirthDate] : u \in UserIds}
    /\ projects = {[id |-> 1, author |-> 2, name |-> NewText],
                   [id |-> 2, author |-> 3, name |-> NewText]}
    /\ memberships = {[project |-> 1, user |-> 2, added_by |-> 2],
                      [project |-> 2, user |-> 3, added_by |-> 3]}
    /\ \/ /\ issues = {}
          /\ comments = {}
          /\ nextIssue = 1
       \/ /\ issues = {[id |-> 1, project |-> 1, author |-> 2, title |-> NewText],
                       [id |-> 2, project |-> 2, author |-> 3, title |-> NewText]}
          /\ comments = {[id |-> "c1", issue |-> 1, author |-> 2,
                          description |-> NewText]}
          /\ nextIssue = MaxNestedIssues + 1
    /\ assignees = {}
    /\ nextProject = MaxNestedProjects + 1
    /\ pending = {}
    /\ answered = {}
    /\ assignPending = {}
    /\ assignAnswered = {}
    /\ today = FirstDay
    /\ creating = {}

\* the requests on the nested routes of that database, and the requests
\* that change who is a contributor of which project
NextNested ==
    \/ \E u \in UserIds, p \in NestedProjectIds, un \in Usernames, em \in Emails :
          AddContributor(u, p, un, em)
    \/ \E u \in UserIds, p \in NestedProjectIds, t \in UserIds :
          RemoveContributor(u, p, t)
    \/ \E u \in UserIds, p \in NestedProjectIds, body \in {None} \cup NestedProjectIds :
          IssueCreate(u, p, body)
    \/ \E u \in UserIds, i \in NestedIssueIds, m \in WriteMethods, t \in Texts :
          IssueWrite(u, i, m, t)
    \/ \E u \in UserIds, p \in NestedProjectIds, i \in NestedIssueIds,
          m \in WriteMethods, t \in Texts : NestedIssueWrite(u, p, i, m, t)
    \/ \E u \in UserIds, i \in NestedIssueIds, c \in CommentIds, m \in WriteMethods :
          CommentWrite(u, i, c, m)
    \/ \E u \in UserIds, p \in NestedProjectIds : ProjectDestroy(u, p)
    \/ \E u \in UserIds, i \in NestedIssueIds,
          payload \in IssuePayloads(NestedProjectIds) : IssuePatch(u, i, payload)
    \/ \E u \in UserIds, p \in NestedProjectIds, i \in NestedIssueIds,
          payload \in IssuePayloads(NestedProjectIds) : NestedIssuePatch(u, p, i, payload)

SpecNested == InitNested /\ [][NextNested]_vars

\* a database that holds the staff user only, on the first day
InitUsers ==
    /\ users = {[id |-> 1, is_staff |-> TRUE, first_name |-> NewText,
                 birth_date |-> AdultBirthDate]}
    /\ projects = {}
    /\ memberships = {}
    /\ issues = {}
    /\ assignees = {}
    /\ comments = {}
    /\ nextProject = 1
    /\ nextIssue = 1
    /\ pending = {}
    /\ answered = {}
    /\ assignPending = {}
    /\ assignAnswered = {}
    /\ today = FirstDay
    /\ creating = {}

\* the saves of a user row, through the API and outside it, as days pass;
\* UserUpdate is the PATCH of another field, whose save validates the
\* stored birth date again
NextUsers ==
    \/ \E b \in BirthDates \cup {NoDate} : Signup(b)
    \/ \E u \in UserIds, v \in UserIds, b \in BirthDates \cup {NoDate} :
          ProfileUpdate(u, v, b)
    \/ \E u \in UserIds, v \in UserIds : UserUpdate(u, v, NewText)
    \/ \E v \in UserIds, b \in BirthDates \cup {NoDate} : ModelSave(v, b)
    \/ \E b \in BirthDates \cup {NoDate} : ModelCreate(b)
    \/ Tick

SpecUsers == InitUsers /\ [][NextUsers]_vars

\* ======================================================== properties
NonStaff == {u \in ExistingUsers : ~is_staff(u)}
StaffUsers == {u \in ExistingUsers : is_staff(u)}

\* ---------------------------------------------------------------- C1
C1_AuthorRow ==
    \A r \in projects : is_contributor(r.id, r.author)

C1_RemoveAuthorRefused ==
    \A r \in projects : \A u \in ExistingUsers :
        /\ RemoveContributorOutcome(u, r.id, r.author)[1] # 204
        /\ IsProjectAuthor(u, r.id) =>
              RemoveContributorOutcome(u, r.id, r.author) = <<400, "owner_not_removable">>

C1_RemoveAuthorStep ==
    memberships' # memberships =>
        \A r \in projects : \A u \in UserIds :
            ~RemoveContributor(u, r.id, r.author)

\* C1: every existing project has a membership row for its author in every
\* reachable state; DELETE /projects/{p}/contributors/{author}/ is answered
\* 400 to the project author and to staff, is carried out for no caller, and
\* leaves the membership table as it was.
C1_AuthorAlwaysMember ==
    /\ [](C1_AuthorRow /\ C1_RemoveAuthorRefused)
    /\ [][C1_RemoveAuthorStep]_vars

\* C1 witness: a project lost a contributor and a user was deleted, its
\* author's row is still there, and the author and staff are both refused
C1_Witness ==
    \E r \in projects :
        /\ ExistingUsers # UserIds
        /\ \E s \in StaffUsers : s # r.author /\
              RemoveContributorOutcome(s, r.id, r.author)[1] = 400
        /\ RemoveContributorOutcome(r.author, r.id, r.author)[1] = 400
        /\ {m \in memberships : m.project = r.id} =
              {[project |-> r.id, user |-> r.author, added_by |-> r.author]}
        /\ r.name = "b"

\* ---------------------------------------------------------------- C2
\* C2 as stated: in every reachable state the author of every existing issue
\* is a contributor of the issue's project.
C2_Original ==
    \A r \in issues : is_contributor(r.project, r.author)

\* C2 amended: every step that inserts or rewrites an issue row leaves that
\* row with an author who is a contributor of its project at that moment
\* (the check is made at save time only).
C2_AuthorMemberAtSave ==
    [][\A r \in issues' : r \notin issues =>
          \E m \in memberships' : m.project = r.project /\ m.user = r.author]_vars

\* C2 witness: an issue written by a contributor who is not the project
\* author, saved again since (its title was changed)
C2_Witness ==
    \E r \in issues :
        /\ r.title = "b"
        /\ r.author # ProjectRow(r.project).author
        /\ is_contributor(r.project, r.author)

C5_Original ==
    /\ \A m1, m2 \in memberships :
          m1.project = m2.project /\ m1.user = m2.user => m1 = m2
    /\ \A a \in answered : a.status \in {201, 400, 403, 404}

\* ---------------------------------------------------------------- C6
C6_OneRowPerPair ==
    \A m1, m2 \in memberships :
        m1.project = m2.project /\ m1.user = m2.user => m1 = m2

C6_SecondAddRefused ==
    \A p \in ExistingProjects : \A u, v \in ExistingUsers :
        is_contributor(p, v) /\ IsProjectAuthor(u, p) =>
            /\ ContributorValidate(p, Username(v), None) = "already_contributor"
            /\ ContributorValidate(p, None, Email(v)) = "already_contributor"
            /\ AddContributorStatus(u, p, Username(v), None) = 400
            /\ AddContributorStatus(u, p, None, Email(v)) = 400

C6_SecondAddStep ==
    memberships' # memberships =>
        \A p \in ProjectIds : \A u, v \in UserIds :
            is_contributor(p, v) =>
                /\ ~AddContributor(u, p, Username(v), None)
                /\ ~AddContributor(u, p, None, Email(v))

\* C6: there is at most one membership row per (user, project) in every
\* reachable state; adding a user who already is a contributor, named by
\* username or by email, is answered 400 'already a contributor' and
\* leaves the membership table as it was.
C6_AddTwiceOneRow ==
    /\ [](C6_OneRowPerPair /\ C6_SecondAddRefused)
    /\ [][C6_SecondAddStep]_vars

\* C6 witness: a user other than the author was added to a project, and a
\* second add of that user by username or by email is answered 400
C6_Witness ==
    \E m \in memberships :
        /\ m.user # ProjectRow(m.project).author
        /\ m.added_by = ProjectRow(m.project).author
        /\ AddContributorStatus(m.added_by, m.project, Username(m.user), None) = 400
        /\ AddContributorStatus(m.added_by, m.project, None, Email(m.user)) = 400
        /\ Cardinality({x \in memberships : x.project = m.project /\ x.user = m.user}) = 1

\* ---------------------------------------------------------------- C7
\* u is a member of issue i's project: its author or one of its contributors
MemberOfIssueProject(u, i) ==
    \/ ProjectRow(IssueRow(i).project).author = u
    \/ is_contributor(IssueRow(i).project, u)

\* the (user, issue) pairs where the issue exists and is hidden from the user
HiddenIssues ==
    {<<u, i>> \in NonStaff \X ExistingIssues : ~MemberOfIssueProject(u, i)}

\* the answers of every by-id route of issue i to user u
IssueRouteAnswers(u, i) ==
    {IssueOutcome(u, i, m) : m \in Methods}
    \cup {IssueObjectStatus(u, i, FALSE)}
    \cup {AssigneeAddOutcome(u, i, v)[1] : v \in UserIds}
    \cup {AssigneeRemoveOutcome(u, i, v) : v \in UserIds}
    \cup {CommentCreateOutcome(u, i)}
    \cup {CommentOutcome(u, i, c, m) : c \in CommentIds, m \in Methods}

NestedRouteAnswers(u, i) ==
    {NestedIssueOutcome(u, p, i, m) : p \in ProjectIds, m \in Methods}

C8_Original ==
    /\ \A u \in NonStaff : \A v \in ExistingUsers \ {u} : \A m \in Methods :
          UserOutcome(u, v, m) = 404
    /\ \A u \in NonStaff : \A m \in Methods : UserOutcome(u, u, m) \in {200, 204}
    /\ \A s \in StaffUsers : \A v \in ExistingUsers : UserOutcome(s, v, "GET") = 200

\* ---------------------------------------------------------------- C9
\* the (user, issue) pairs where a non-staff member of the issue's project
\* is not the issue's author
VisibleNotAuthor ==
    {<<u, i>> \in NonStaff \X ExistingIssues :
        MemberOfIssueProject(u, i) /\ IssueRow(i).author # u}

\* the (user, project) pairs where a non-staff contributor is not the author
ContributorNotAuthor ==
    {<<u, p>> \in NonStaff \X ExistingProjects :
        is_contributor(p, u) /\ ProjectRow(p).author # u}

C9_Answers ==
    /\ \A h \in VisibleNotAuthor :
          /\ IssueOutcome(h[1], h[2], "GET") = 200
          /\ NestedIssueOutcome(h[1], IssueRow(h[2]).project, h[2], "GET") = 200
          /\ \A m \in WriteMethods :
                /\ IssueOutcome(h[1], h[2], m) = 403
                /\ NestedIssueOutcome(h[1], IssueRow(h[2]).project, h[2], m) = 403
    /\ \A h \in ContributorNotAuthor :
          /\ ProjectRetrieveStatus(h[1], h[2]) = 200
          /\ ProjectObjectStatus(h[1], h[2], TRUE) = 403

C9_DeniedWriteStep ==
    /\ issues' # issues =>
          \A h \in VisibleNotAuthor : \A m \in WriteMethods, t \in Texts :
              /\ ~IssueWrite(h[1], h[2], m, t)
              /\ ~NestedIssueWrite(h[1], IssueRow(h[2]).project, h[2], m, t)
    /\ projects' # projects =>
          \A h \in ContributorNotAuthor :
              /\ ~ProjectDestroy(h[1], h[2])
              /\ \A n \in Texts : ~ProjectUpdate(h[1], h[2], n)

\* C9: a non-staff member of an issue's project who is not the issue's
\* author can read the issue and is answered 403 on its update and delete,
\* on /issues/{id}/ and on /projects/{pid}/issues/{id}/; a non-staff
\* contributor who is not the project's author can retrieve the project and
\* is answered 403 on its update and delete; these requests change neither
\* the issue table nor the project table.
C9_VisibleDeniedIs403 ==
    /\ []C9_Answers
    /\ [][C9_DeniedWriteStep]_vars

\* C9 witness: a non-staff contributor who wrote neither the project nor
\* its issue is refused with 403 on both
C9_Witness ==
    \E h \in VisibleNotAuthor :
        /\ <<h[1], IssueRow(h[2]).project>> \in ContributorNotAuthor
        /\ IssueOutcome(h[1], h[2], "DELETE") = 403
        /\ NestedIssueOutcome(h[1], IssueRow(h[2]).project, h[2], "UPDATE") = 403
        /\ ProjectObjectStatus(h[1], IssueRow(h[2]).project, TRUE) = 403
        /\ IssueRow(h[2]).author \in NonStaff

\* --------------------------------------------------------------- C10
\* write requests on issue i by u that pass authorization
IssueWritePermitted(u, i) ==
    \A m \in WriteMethods :
        /\ IssueOutcome(u, i, m) \notin {403, 404}
        /\ NestedIssueOutcome(u, IssueRow(i).project, i, m) \notin {403, 404}

IssueWriteRefused(u, i) ==
    \A m \in WriteMethods :
        /\ IssueOutcome(u, i, m) = 403
        /\ NestedIssueOutcome(u, IssueRow(i).project, i, m) \in {403, 404}

CommentWritePermitted(u, c) ==
    \A m \in WriteMethods : CommentOutcome(u, CommentRow(c).issue, c, m) \notin {403, 404}

C11_Original ==
    /\ \A u \in ExistingUsers : \A p \in ExistingProjects :
          IssueCreateOutcome(u, p, None)[1] = 201 <=>
              (is_staff(u) \/ ProjectRow(p).author = u \/ is_contributor(p, u))
    /\ \A u \in ExistingUsers : \A i \in ExistingIssues :
          CommentCreateOutcome(u, i) = 201 <=>
              (is_staff(u) \/ MemberOfIssueProject(u, i))

\* --------------------------------------------------------------- C12
\* the routes on which u can read comment c
NestedCommentReads(u, c) ==
    {r \in {"list", "detail"} :
        IF r = "list" THEN c \in IssueCommentsList(u, CommentRow(c).issue)
        ELSE CommentOutcome(u, CommentRow(c).issue, c, "GET") = 200}

GlobalCommentReads(u, c) ==
    {r \in {"list", "detail"} :
        IF r = "list" THEN c \in CommentQS(u)
        ELSE GlobalCommentOutcome(u, c, "GET") = 200}

AllReads == {"list", "detail"}

C13_ProjectList ==
    /\ \A u \in NonStaff :
          /\ ProjectListQS(u) = {r.id : r \in {x \in projects : x.author = u}}
          /\ \A m \in memberships :
                m.user = u /\ ProjectRow(m.project).author # u =>
                    m.project \notin ProjectListQS(u)
    /\ \A s \in StaffUsers : ProjectListQS(s) = {r.id : r \in projects}

\* C13 witness: a project with a non-staff author and a non-staff
\* contributor, of which staff is no member: the author and staff list it,
\* the contributor does not
C13_Witness ==
    \E r \in projects : \E u \in NonStaff : \E s \in StaffUsers :
        /\ r.author \in NonStaff /\ u # r.author
        /\ is_contributor(r.id, u)
        /\ ~is_contributor(r.id, s)
        /\ ProjectListQS(r.author) = {r.id}
        /\ ProjectListQS(u) = {}
        /\ ProjectListQS(s) = {r.id}

\* --------------------------------------------------------------- C14
\* C14: GET /issues/ returns to a non-staff user exactly the issues of the
\* projects the user is author of or has a membership row in, and to a
\* staff user every issue; no issue of another project is ever listed.
C14_IssueList ==
    /\ \A u \in NonStaff :
          IssueListQS(u) =
              {r.id : r \in {x \in issues :
                  \/ \E q \in projects : q.id = x.project /\ q.author = u
                  \/ \E m \in memberships : m.project = x.project /\ m.user = u}}
    /\ \A s \in StaffUsers : IssueListQS(s) = {r.id : r \in issues}

\* C14 witness: an issue whose non-staff author was removed from the
\* project: the project's author and staff list it, the issue's author
\* does not
C14_Witness ==
    \E r \in issues : \E s \in StaffUsers :
        /\ r.author \in NonStaff
        /\ ProjectRow(r.project).author \in NonStaff
        /\ ~MemberOfIssueProject(r.author, r.id)
        /\ ~MemberOfIssueProject(s, r.id)
        /\ IssueListQS(r.author) = {}
        /\ IssueListQS(ProjectRow(r.project).author) = {r.id}
        /\ IssueListQS(s) = {r.id}

\* --------------------------------------------------------------- C15
\* u is staff or the author of project p
StaffOrProjectAuthor(u, p) == is_staff(u) \/ ProjectRow(p).author = u

C15_Answers ==
    \A p \in ExistingProjects : \A u \in ExistingUsers :
        IF StaffOrProjectAuthor(u, p)
        THEN /\ ProjectObjectStatus(u, p, TRUE) = 200
             /\ \A v \in ExistingUsers :
                   IF is_contributor(p, v)
                   THEN v # ProjectRow(p).author =>
                            RemoveContributorOutcome(u, p, v)[1] = 204
                   ELSE /\ AddContributorStatus(u, p, Username(v), None) = 201
                        /\ AddContributorStatus(u, p, None, Email(v)) = 201
        ELSE /\ ProjectObjectStatus(u, p, TRUE) = IF is_contributor(p, u) THEN 403 ELSE 404
             /\ \A un \in Usernames, em \in Emails :
                   AddContributorStatus(u, p, un, em) \in {403, 404}
             /\ \A t \in UserIds : RemoveContributorOutcome(u, p, t)[1] \in {403, 404}

C15_RefusedStep ==
    (projects' # projects \/ memberships' # memberships) =>
        \A p \in ExistingProjects : \A u \in ExistingUsers :
            ~StaffOrProjectAuthor(u, p) =>
                /\ ~ProjectDestroy(u, p)
                /\ \A n \in Texts : ~ProjectUpdate(u, p, n)
                /\ \A un \in Usernames, em \in Emails : ~AddContributor(u, p, un, em)
                /\ \A t \in UserIds : ~RemoveContributor(u, p, t)

\* C15: update and delete of project p, adding a user who is no
\* contributor yet and removing a contributor other than the author are
\* carried out for a requester who is staff or p's author, and refused
\* (403 for a contributor, 404 for any other user) for everyone else; a
\* refused request changes neither the project table nor the membership
\* table.
C15_ProjectWrites ==
    /\ []C15_Answers
    /\ [][C15_RefusedStep]_vars

\* C15 witness: a renamed project whose contributor was added by staff;
\* that contributor is refused with 403 on the project and its members
C15_Witness ==
    \E m \in memberships :
        /\ is_staff(m.added_by) /\ ~is_contributor(m.project, m.added_by)
        /\ m.user \in NonStaff /\ m.user # ProjectRow(m.project).author
        /\ ProjectRow(m.project).name = "b"
        /\ ProjectObjectStatus(m.user, m.project, TRUE) = 403
        /\ RemoveContributorOutcome(m.user, m.project, m.user)[1] = 403
        /\ AddContributorStatus(m.user, m.project, Username(m.added_by), None) = 403
        /\ RemoveContributorOutcome(m.added_by, m.project, m.user)[1] = 204

\* --------------------------------------------------------------- C16
\* payloads of add-contributor with neither key or with both keys
BadKeyPayloads ==
    {k \in Usernames \X Emails : (k[1] = None) = (k[2] = None)}

C16_Answers ==
    \A p \in ExistingProjects : \A u \in ExistingUsers :
        IsProjectAuthor(u, p) =>
            \A k \in BadKeyPayloads :
                /\ ContributorValidate(p, k[1], k[2]) = "exactly_one"
                /\ AddContributorStatus(u, p, k[1], k[2]) = 400

C16_NoRowStep ==
    memberships' # memberships =>
        \A p \in ProjectIds : \A u \in UserIds : \A k \in BadKeyPayloads :
            ~AddContributor(u, p, k[1], k[2])

\* C16: an add-contributor payload with neither username nor email, or
\* with both, is answered 400 with the 'exactly one' error whatever users
\* the keys name (the error is raised before any lookup), and no
\* membership row is created by such a request.
C16_ExactlyOneKey ==
    /\ []C16_Answers
    /\ [][C16_NoRowStep]_vars

\* C16 witness: a project to which one user was added; for a user who is
\* not a contributor yet the username alone is accepted, while both keys
\* together and no key at all are refused
C16_Witness ==
    \E p \in ExistingProjects : \E v \in ExistingUsers :
        LET a == ProjectRow(p).author IN
        /\ ~is_contributor(p, v)
        /\ \E m \in memberships : m.project = p /\ m.user # a
        /\ AddContributorStatus(a, p, Username(v), None) = 201
        /\ AddContributorStatus(a, p, Username(v), Email(v)) = 400
        /\ AddContributorStatus(a, p, None, None) = 400

\* --------------------------------------------------------------- C17
\* payloads with one key, and those among them that name no user
OneKeyPayloads ==
    {k \in Usernames \X Emails : (k[1] = None) # (k[2] = None)}

UnknownUserPayloads ==
    {k \in OneKeyPayloads : ResolveUser(k[1], k[2]) = None}

\* C17 as stated: for a caller allowed to add contributors, a key that
\* names no user is answered with an outcome kind (status) other than that
\* of a missing or ambiguous key and other than that of a user who already
\* is a contributor.
C17_Original ==
    \A p \in ExistingProjects : \A u \in ExistingUsers :
        IsProjectAuthor(u, p) =>
            \A k \in UnknownUserPayloads :
                /\ \A b \in BadKeyPayloads :
                      AddContributorStatus(u, p, k[1], k[2]) #
                          AddContributorStatus(u, p, b[1], b[2])
                /\ \A m \in memberships : m.project = p =>
                      AddContributorStatus(u, p, k[1], k[2]) #
                          AddContributorStatus(u, p, Username(m.user), None)

C17_Answers ==
    \A p \in ExistingProjects : \A u \in ExistingUsers :
        IsProjectAuthor(u, p) =>
            /\ \A k \in UnknownUserPayloads :
                  /\ ContributorValidate(p, k[1], k[2]) = "user_not_found"
                  /\ AddContributorStatus(u, p, k[1], k[2]) = 400
            /\ \A b \in BadKeyPayloads :
                  /\ ContributorValidate(p, b[1], b[2]) = "exactly_one"
                  /\ AddContributorStatus(u, p, b[1], b[2]) = 400
            /\ \A m \in memberships : m.project = p =>
                  /\ ContributorValidate(p, Username(m.user), None) = "already_contributor"
                  /\ AddContributorStatus(u, p, Username(m.user), None) = 400

C17_NoRowStep ==
    memberships' # memberships =>
        \A p \in ProjectIds : \A u \in UserIds : \A k \in UnknownUserPayloads :
            ~AddContributor(u, p, k[1], k[2])

\* C17 amended: a key that names no user, a missing or ambiguous key and a
\* user who already is a contributor are all answered with the same
\* outcome kind, a validation error (400); they differ by their message
\* only ('Utilisateur introuvable.', 'Fournir exactement un champ',
\* 'Cet utilisateur est deja contributeur.'), and none of them changes the
\* membership table.
C17_SameKindThreeMessages ==
    /\ []C17_Answers
    /\ [][C17_NoRowStep]_vars

\* C17 witness: a user was deleted; on a project that remains, the
\* deleted user's name, the author's own name and an empty payload give
\* the three messages, all with status 400
C17_Witness ==
    \E p \in ExistingProjects : \E d \in UserIds \ ExistingUsers :
        LET a == ProjectRow(p).author IN
        /\ ContributorValidate(p, Username(d), None) = "user_not_found"
        /\ ContributorValidate(p, None, Email(a)) = "already_contributor"
        /\ ContributorValidate(p, None, None) = "exactly_one"
        /\ AddContributorStatus(a, p, Username(d), None) = 400
        /\ AddContributorStatus(a, p, None, Email(a)) = 400
        /\ AddContributorStatus(a, p, None, None) = 400

\* --------------------------------------------------------------- C18
\* whoever the requester of a step that inserts membership rows is, the
\* rows inserted carry that requester in added_by
C18_NewRowStep ==
    memberships' # memberships =>
        \A u \in UserIds :
            (\/ ProjectCreate(u)
             \/ \E a \in UserIds : ProjectCreateForUser(u, a)
             \/ \E p \in ProjectIds, un \in Usernames, em \in Emails :
                   AddContributor(u, p, un, em))
            => \A r \in memberships' \ memberships : r.added_by = u

\* C18: every membership row created by a request records the requester in
\* added_by: add-contributor records the caller, project creation records
\* the caller on the author's own row, also when a staff caller creates the
\* project for another author.
C18_AddedByIsRequester ==
    [][C18_NewRowStep]_vars

\* C18 witness: a project created by staff for another author, whose own
\* row names staff in added_by, and a contributor whom the author added
C18_Witness ==
    \E r \in projects : \E m1, m2 \in memberships :
        /\ m1.project = r.id /\ m1.user = r.author
        /\ m1.added_by # r.author /\ is_staff(m1.added_by)
        /\ m2.project = r.id /\ m2.user # r.author /\ m2.added_by = r.author

\* ------------------------------------------------------------------ C19
\* a request that passes get_object and the permissions and names an
\* existing user who is not a contributor of the issue's project is
\* answered with the validation error of validate_user, and is never 201
C19_Answers ==
    \A u \in ExistingUsers : \A i \in ExistingIssues : \A v \in UserIds :
        ~is_contributor(IssueRow(i).project, v) =>
            /\ AssigneeAddOutcome(u, i, v)[1] # 201
            /\ (IssueObjectStatus(u, i, TRUE) = 200 /\ v \in ExistingUsers)
                  => AssigneeAddOutcome(u, i, v) = <<400, "not_contributor">>

\* every assignment row a step creates is for a user who is a contributor
\* of the issue's project in the state the request is handled in
C19_NewRowStep ==
    assignees' # assignees =>
        \A x \in assignees' \ assignees :
            is_contributor(IssueRow(x.issue).project, x.user)

\* a removal of a contributor leaves every assignment row as it was
C19_RemovalStep ==
    memberships' # memberships =>
        \A u \in UserIds : \A p \in ProjectIds : \A t \in UserIds :
            RemoveContributor(u, p, t) => assignees' = assignees

\* C19: an assignment (issue, user) is created only if the user is a
\* contributor of the issue's project when the request is handled, else the
\* request gets a validation error and no row; removing the user from the
\* contributors later leaves the assignment row in place and unchanged.
C19_AssignOnlyContributor ==
    /\ []C19_Answers
    /\ [][C19_NewRowStep]_vars
    /\ [][C19_RemovalStep]_vars

\* an assignment whose user has been removed from the contributors is still
\* there, and assigning a user who is not a contributor is refused
C19_Witness ==
    /\ \E x \in assignees :
          /\ x.user \in ExistingUsers
          /\ x.issue \in ExistingIssues
          /\ ~is_contributor(IssueRow(x.issue).project, x.user)
    /\ \E u \in ExistingUsers : \E i \in ExistingIssues : \E v \in ExistingUsers :
          AssigneeAddOutcome(u, i, v) = <<400, "not_contributor">>

\* ------------------------------------------------------------------ C20
\* at most one assignment row per (issue, user)
C20_OneRowPerPair ==
    \A x1, x2 \in assignees :
        x1.issue = x2.issue /\ x1.user = x2.user => x1 = x2

\* no assignee-add request ends in an unhandled error, and each refusal of
\* the serializer is one of its three validation errors on field 'user'
C20_AnswersHandled ==
    \A a \in assignAnswered :
        /\ a.status \in {201, 400, 403, 404}
        /\ a.status = 400 =>
              a.detail \in {"invalid_pk", "not_contributor", "already_assigned"}

\* a request for a pair that is assigned already gets the validation error
\* 'already assigned' on 'user', from validate when the row is there at the
\* existence check and from create when the row came in after it
C20_LaterRefused ==
    /\ \A u \in ExistingUsers : \A x \in assignees :
          (x.issue \in ExistingIssues /\ IssueObjectStatus(u, x.issue, TRUE) = 200
             /\ is_contributor(IssueRow(x.issue).project, x.user))
          => AssigneeAddOutcome(u, x.issue, x.user) = <<400, "already_assigned">>
    /\ \A q \in assignPending :
          [issue |-> q.issue, user |-> q.user] \in assignees
          => AssigneeCreateOutcome(q.issue, q.user) = <<400, "already_assigned">>

\* a refused assignee-add request leaves the assignment rows as they were
C20_RefusedStep ==
    assignAnswered' # assignAnswered =>
        \A a \in assignAnswered' \ assignAnswered :
            a.status # 201 => assignees' = assignees

\* C20: there is at most one assignment row per (issue, user); assigning a
\* user who is assigned already, one request after the other or by two
\* requests that both passed the existence check, gives the later request
\* the validation error on 'user', never a second row or an unhandled error.
C20_AssignTwiceOneRow ==
    /\ []C20_OneRowPerPair
    /\ []C20_AnswersHandled
    /\ []C20_LaterRefused
    /\ [][C20_RefusedStep]_vars

\* two requests for one pair both passed the existence check: the one
\* saved first was answered 201, the other was refused by create, and the
\* pair has its row
C20_Witness ==
    \E a1, a2 \in assignAnswered :
        /\ a1.req # a2.req
        /\ a1.issue = a2.issue /\ a1.user = a2.user
        /\ a1.at = "save" /\ a1.status = 201
        /\ a2.at = "save" /\ a2.status = 400 /\ a2.detail = "already_assigned"
        /\ [issue |-> a1.issue, user |-> a1.user] \in assignees

\* ------------------------------------------------------------------ C21
\* a caller who may create issues in project p and sends a "project" value
\* other than p is answered 400 keyed 'project'
C21_MismatchRefused ==
    \A u \in ExistingUsers : \A p \in ExistingProjects : \A b \in NestedProjectIds :
        (b # p /\ ProjectObjectStatus(u, p, FALSE) = 200)
            => IssueCreateOutcome(u, p, b) = <<400, "project">>

\* an issue created by POST /projects/{p}/issues/ is in project p, and the
\* request carried no "project" value or the value p
C21_CreateStep ==
    issues' # issues =>
        \A u \in UserIds : \A p \in NestedProjectIds :
            \A b \in {None} \cup NestedProjectIds :
                IssueCreate(u, p, b) =>
                    /\ b \in {None, p}
                    /\ \A r \in issues' \ issues : r.project = p

\* C21: an issue created through POST /projects/{P}/issues/ belongs to
\* project P of the URL; a body whose 'project' differs from P is refused
\* with a 400 keyed 'project', and no issue is created in P or in the
\* project the body names.
C21_ProjectFromUrl ==
    /\ []C21_MismatchRefused
    /\ [][C21_CreateStep]_vars

\* an issue was created in one project while another project exists, and a
\* member of one project naming the other in the body is refused
C21_Witness ==
    /\ \E r \in issues : \E q \in ExistingProjects :
          q # r.project /\ nextIssue = r.id + 1 /\ r.id = 1
    /\ \E u \in NonStaff : \E p, q \in ExistingProjects :
          /\ p # q
          /\ is_contributor(p, u)
          /\ is_contributor(q, u)
          /\ IssueCreateOutcome(u, p, q) = <<400, "project">>

\* ------------------------------------------------------------------ C22
\* the number of birthdays of birth_date that fall on or before day
FullYears(birth_date, day) ==
    Cardinality({y \in (birth_date[1] + 1)..day[1] :
                    ~DateLess(day, <<y, birth_date[2], birth_date[3]>>)})

\* a birth date that is missing, in the future, or of someone under 15
BadBirthDate(birth_date, day) ==
    \/ birth_date = NoDate
    \/ DateLess(day, birth_date)
    \/ FullYears(birth_date, day) < MIN_SIGNUP_AGE_YEARS

\* no stored user has a bad birth date
C22_StoredOk ==
    \A r \in users : ~BadBirthDate(r.birth_date, today)

\* signup, profile update and the model's save answer a bad birth date
\* with an error keyed 'birth_date'
C22_Refused ==
    \A b \in BirthDates \cup {NoDate} :
        BadBirthDate(b, today) =>
            /\ SignupOutcome(b) = <<400, "birth_date">>
            /\ UserClean(b, today) = "birth_date"
            /\ \A u, v \in ExistingUsers :
                  IsSelfOrAdmin(u, v) =>
                      ProfileUpdateOutcome(u, v, b) = <<400, "birth_date">>

\* a step that writes a user row writes a birth date that is good on the
\* day of the step, and is not the save of a bad birth date
C22_SaveStep ==
    users' # users =>
        /\ \A r \in users' \ users : ~BadBirthDate(r.birth_date, today)
        /\ \A b \in BirthDates \cup {NoDate} :
              BadBirthDate(b, today) =>
                  /\ ~Signup(b)
                  /\ ~ModelCreate(b)
                  /\ \A v \in UserIds :
                        /\ ~ModelSave(v, b)
                        /\ \A u \in UserIds : ~ProfileUpdate(u, v, b)

\* C22: no user row is persisted whose birth_date is missing, in the
\* future or implies an age below 15 on the day of the save; signup,
\* profile update and a model-level save refuse such a value with an error
\* keyed 'birth_date', the refused create leaves no row and the refused
\* update leaves the stored user as it was.
C22_BirthDateLock ==
    /\ []C22_StoredOk
    /\ []C22_Refused
    /\ [][C22_SaveStep]_vars

\* a user who signed up on their fifteenth birthday is stored, while a
\* signup with a birth date one day later is refused that day
C22_Witness ==
    \E r \in users :
        /\ ~r.is_staff
        /\ r.birth_date[1] = 1
        /\ FullYears(r.birth_date, today) = MIN_SIGNUP_AGE_YEARS
        /\ \E b \in BirthDates :
              /\ b[1] = 1
              /\ DateLess(today, <<today[1], b[2], b[3]>>)
              /\ SignupOutcome(b) = <<400, "birth_date">>

\* ------------------------------------------------------------------ C23
\* C23 as stated: project creation is atomic with the author's membership
\* row, so no request handled while a create-project request is in flight
\* finds a project whose author has no membership row.
C23_Original ==
    \A r \in projects : is_contributor(r.id, r.author)

\* ------------------------------------------------------------------ C24
\* C24 as stated: a create or update request whose save of an Issue, a
\* Comment or a User violates a model-level invariant is answered with a
\* validation error (400), never with the 500 of an unhandled exception.
C24_Original ==
    \A u \in ExistingUsers :
        /\ \A i \in ExistingIssues :
              /\ IssueOutcome(u, i, "UPDATE") # 500
              /\ \A p \in ExistingProjects : NestedIssueOutcome(u, p, i, "UPDATE") # 500
              /\ CommentCreateOutcome(u, i) # 500
              /\ \A c \in ExistingComments : CommentOutcome(u, i, c, "UPDATE") # 500
        /\ \A p \in ExistingProjects : \A b \in {None} \cup ProjectIds :
              IssueCreateOutcome(u, p, b)[1] # 500
        /\ \A c \in ExistingComments : GlobalCommentOutcome(u, c, "UPDATE") # 500
        /\ \A v \in ExistingUsers : UserOutcome(u, v, "UPDATE") # 500

\* ------------------------------------------------------------------ C25
\* what a non-staff user who is not the author gets from the requests on
\* project p: retrieve, list of issues, create issue, create comment
C25_Answers(u, p) ==
    {ProjectRetrieveStatus(u, p), IssueCreateOutcome(u, p, None)[1]}
    \cup {CommentCreateOutcome(u, i) : i \in {x \in ExistingIssues : IssueRow(x).project = p}}

\* C25 as stated: each request is decided from the membership rows stored
\* when it is handled: a non-staff user who is not the author of P and has
\* no membership row (never added, or removed by the last request) is
\* refused on retrieve P, list P's issues, create issue and create comment
\* in P, and one who has a membership row (added by the last request) is
\* allowed on all of them.
C25_Original ==
    \A u \in NonStaff \cap ExistingUsers : \A p \in ExistingProjects :
        u # ProjectRow(p).author =>
            IF is_contributor(p, u)
            THEN C25_Answers(u, p) \subseteq {200, 201}
            ELSE C25_Answers(u, p) \subseteq {403, 404}

\* ------------------------------------------------------------------ C26
\* every membership row and issue references an existing project, every
\* assignment and comment an existing issue
C26_NoOrphans ==
    /\ \A m \in memberships : m.project \in ExistingProjects
    /\ \A r \in issues : r.project \in ExistingProjects
    /\ \A x \in assignees : x.issue \in ExistingIssues
    /\ \A c \in comments : c.issue \in ExistingIssues

\* a step that deletes a project leaves none of its membership rows and
\* issues, and a step that deletes an issue none of its assignments and
\* comments
C26_DeleteStep ==
    /\ \A p \in ExistingProjects :
          p \notin {r.id : r \in projects'} =>
              /\ ~\E m \in memberships' : m.project = p
              /\ ~\E r \in issues' : r.project = p
    /\ \A i \in ExistingIssues :
          i \notin {r.id : r \in issues'} =>
              /\ ~\E x \in assignees' : x.issue = i
              /\ ~\E c \in comments' : c.issue = i

\* C26: deleting a project deletes its membership rows and its issues,
\* deleting an issue deletes its assignments and comments, and in every
\* reachable state no membership row or issue is without its project and
\* no assignment or comment without its issue.
C26_Containment ==
    /\ []C26_NoOrphans
    /\ [][C26_DeleteStep]_vars

\* the project was deleted by a request on it (no user was deleted), and
\* its membership rows, its issue and the issue's comment went with it
C26_Witness ==
    /\ ExistingUsers = UserIds
    /\ nextProject > 1
    /\ projects = {}
    /\ memberships = {}
    /\ issues = {}
    /\ assignees = {}
    /\ comments = {}

\* ------------------------------------------------------------------ C27
\* an issue that is there before and after a step has the project and the
\* author it had
C27_KeepStep ==
    issues' # issues =>
        \A r \in issues : \A n \in issues' :
            n.id = r.id => n.project = r.project /\ n.author = r.author

\* C27: the project and the author of an issue never change after its
\* creation: no PUT or PATCH on /issues/{id}/ or /projects/{pid}/issues/{id}/
\* changes them, and a 'project' or 'author' value in the update body has
\* no effect on the stored issue.
C27_ProjectAuthorFixed == [][C27_KeepStep]_vars

\* an issue was updated while another project and another user, which an
\* update body can name, exist
C27_Witness ==
    \E r \in issues :
        /\ r.title # NewText
        /\ \E q \in ExistingProjects : q # r.project
        /\ \E v \in ExistingUsers : v # r.author /\ is_contributor(r.project, v)

\* ------------------------------------------------------------------ C28
\* C28: for a non-staff user U, GET /projects/{id}/ never answers 403: the
\* projects of the detail queryset are the projects IsProjectContributor
\* allows, so the answer is 200 exactly when U is the author or has a
\* membership row (an author without a membership row included) and 404
\* otherwise.
C28_RetrieveNever403 ==
    \A u \in NonStaff \cap ExistingUsers :
        /\ ProjectDetailQS(u) = {p \in ExistingProjects : IsProjectContributor(u, p)}
        /\ \A p \in ExistingProjects :
              /\ ProjectRetrieveStatus(u, p) \in {200, 404}
              /\ ProjectRetrieveStatus(u, p) = 200
                    <=> (ProjectRow(p).author = u \/ is_contributor(p, u))

\* a project whose author has no membership row: the author retrieves it,
\* and another non-staff user, who has no membership row, is answered 404
C28_Witness ==
    \E r \in projects : \E w \in NonStaff \cap ExistingUsers :
        /\ r.author \in NonStaff
        /\ ~is_contributor(r.id, r.author)
        /\ ProjectRetrieveStatus(r.author, r.id) = 200
        /\ w # r.author
        /\ ~is_contributor(r.id, w)
        /\ ProjectRetrieveStatus(w, r.id) = 404

\* ------------------------------------------------------------------ C29
\* an issue requested under a project that is not its own
IssueUnderOtherProject(p, i) == i \in ExistingIssues /\ IssueRow(i).project # p

\* a comment requested under an issue that is not its own
CommentUnderOtherIssue(i, c) ==
    i \in ExistingIssues /\ c \in ExistingComments /\ CommentRow(c).issue # i

C29_Answers ==
    /\ \A u \in ExistingUsers : \A p \in NestedProjectIds : \A i \in NestedIssueIds :
          IssueUnderOtherProject(p, i) =>
              \A m \in Methods : NestedIssueOutcome(u, p, i, m) = 404
    /\ \A u \in ExistingUsers : \A i \in NestedIssueIds : \A c \in ExistingComments :
          CommentUnderOtherIssue(i, c) =>
              \A m \in Methods :
                  CommentOutcome(u, i, c, m) =
                      IF IsProjectContributor(u, IssueRow(i).project) THEN 404 ELSE 403

\* a write on either nested route to a resource of another parent changes
\* neither the issues nor the comments
C29_UnchangedStep ==
    /\ issues' # issues =>
          \A u \in ExistingUsers : \A p \in NestedProjectIds : \A i \in NestedIssueIds :
              IssueUnderOtherProject(p, i) =>
                  /\ \A m \in WriteMethods : \A t \in Texts :
                        ~NestedIssueWrite(u, p, i, m, t)
                  /\ \A payload \in IssuePayloads(NestedProjectIds) :
                        ~NestedIssuePatch(u, p, i, payload)
    /\ comments' # comments =>
          \A u \in ExistingUsers : \A i \in NestedIssueIds : \A c \in ExistingComments :
              CommentUnderOtherIssue(i, c) =>
                  \A m \in WriteMethods : ~CommentWrite(u, i, c, m)

RemovedByRequest(m) ==
    \E u \in ExistingUsers :
        /\ RemoveContributorOutcome(u, m.project, m.user)[1] = 204
        /\ RemoveContributor(u, m.project, m.user)

\* the step deletes user v
UserDeleted(v) == v \in ExistingUsers /\ v \notin {r.id : r \in users'}

\* the step deletes project p, by its own delete or with its author
ProjectDeleted(p) == p \in ExistingProjects /\ p \notin {r.id : r \in projects'}

\* C30 as stated: a membership row disappears only in a remove-contributor
\* request naming its user on its project, in the deletion of its user or
\* in the deletion of its project; the deletion of another user, the one
\* recorded as added_by included, leaves it in place.
C30_Original ==
    [][(memberships' # memberships) =>
          \A m \in memberships :
              m \notin memberships' =>
                  \/ UserDeleted(m.user)
                  \/ ProjectDeleted(m.project)
                  \/ RemovedByRequest(m)]_vars

\* a membership row disappears in exactly these steps
C30_RemovedStep ==
    (memberships' # memberships \/ users' # users \/ projects' # projects) =>
        \A m \in memberships :
            /\ m \notin memberships' =>
                  \/ UserDeleted(m.user)
                  \/ UserDeleted(m.added_by)
                  \/ ProjectDeleted(m.project)
                  \/ RemovedByRequest(m)
            /\ (\/ UserDeleted(m.user)
                \/ UserDeleted(m.added_by)
                \/ ProjectDeleted(m.project)) => m \notin memberships'

\* C30 amended: the membership row of user U in project P is removed by a
\* remove-contributor request naming U on P, by the deletion of user U, by
\* the deletion of the user recorded as the row's added_by, and by the
\* deletion of project P (its own delete, or the deletion of its author);
\* every other operation leaves the row in place.
C30_RemovedOnlyBy == [][C30_RemovedStep]_vars

\* a membership row added by a user who is neither the row's user nor the
\* project's author, and who may delete their own account
C30_Witness ==
    \E m \in memberships :
        /\ m.added_by \in ExistingUsers
        /\ m.added_by # m.user
        /\ m.added_by # ProjectRow(m.project).author
        /\ m.user # ProjectRow(m.project).author
        /\ UserOutcome(m.added_by, m.added_by, "DELETE") = 204
        /\ m \notin MembershipsAfterDelete({m.added_by}, {})
====
